---- MODULE Spec2Model ----
(***************************************************************************)
(* The sessions_spawn tool (src/agents/tools/sessions-spawn-tool.ts):      *)
(* execute() normalises the raw tool arguments, validates an optional     *)
(* model override against the allowed-model set and hands the canonical   *)
(* request to spawnSubagentDirect.                                        *)
(*                                                                         *)
(* JavaScript values are tagged records; a JavaScript string is the       *)
(* sequence of its characters; a number is the rational num/den, with     *)
(* den = 0 for the non-finite values (1/0 Infinity, -1/0 -Infinity,       *)
(* 0/0 NaN).  The event loop is single threaded: one action is the code   *)
(* an invocation runs between two suspend points (await).                 *)
(***************************************************************************)
EXTENDS Integers, Sequences, FiniteSets, TLC

\* Number of invocations of execute that may be in flight together.
NumInvocations == 2

Invocations == 1..NumInvocations

-----------------------------------------------------------------------------
(* JavaScript values *)

Undefined == [t |-> "undefined", s |-> <<>>, num |-> 0, den |-> 1, b |-> FALSE]

Str(chars) == [t |-> "string", s |-> chars, num |-> 0, den |-> 1, b |-> FALSE]

Num(n, d) == [t |-> "number", s |-> <<>>, num |-> n, den |-> d, b |-> FALSE]

Bool(v) == [t |-> "boolean", s |-> <<>>, num |-> 0, den |-> 1, b |-> v]

\* typeof v === "number"
IsNumber(v) == v.t = "number"

\* Number.isFinite(v)
IsFinite(v) == v.t = "number" /\ v.den # 0

\* Math.floor of a finite number
Floor(v) == Num(v.num \div v.den, 1)

\* Math.max(0, v) of a finite integer
Max0(v) == IF v.num < 0 THEN Num(0, 1) ELSE v

\* JavaScript truthiness, as used by `if (x)` and `x || y`
Truthy(v) ==
    CASE v.t = "undefined" -> FALSE
      [] v.t = "string" -> v.s # <<>>
      [] v.t = "number" -> v.den # 0 /\ v.num # 0
      [] v.t = "boolean" -> v.b

RECURSIVE TrimStart(_)
TrimStart(chars) ==
    IF chars # <<>> /\ Head(chars) = " " THEN TrimStart(Tail(chars)) ELSE chars

RECURSIVE TrimEnd(_)
TrimEnd(chars) ==
    IF chars # <<>> /\ chars[Len(chars)] = " "
    THEN TrimEnd(SubSeq(chars, 1, Len(chars) - 1))
    ELSE chars

\* String.prototype.trim
Trim(chars) == TrimEnd(TrimStart(chars))

\* Index of the first "/" of a string, 0 when there is none
RECURSIVE IndexOfSlash(_, _)
IndexOfSlash(chars, from) ==
    IF from > Len(chars) THEN 0
    ELSE IF chars[from] = "/" THEN from
    ELSE IndexOfSlash(chars, from + 1)

-----------------------------------------------------------------------------
(* Collaborators of execute *)

DEFAULT_PROVIDER == <<"p">>

\* readStringParam(params, key, { required }): the string under key, absent
\* when it is missing, not a string, empty or whitespace-only; a required
\* parameter that is absent fails.
readStringParam(params, key, required) ==
    LET raw == params[key]
        present == raw.t = "string" /\ Trim(raw.s) # <<>>
    IN  [thrown |-> required /\ ~present,
         value |-> IF present THEN raw ELSE Undefined]

\* parseModelRef(raw, defaultProvider): "provider/model", or "model" under
\* the default provider; null (ok = FALSE) when a part is empty.
parseModelRef(raw, defaultProvider) ==
    LET trimmed == Trim(raw)
        slash == IndexOfSlash(trimmed, 1)
        provider == IF slash = 0 THEN defaultProvider
                    ELSE Trim(SubSeq(trimmed, 1, slash - 1))
        model == IF slash = 0 THEN trimmed
                 ELSE Trim(SubSeq(trimmed, slash + 1, Len(trimmed)))
    IN  [ok |-> provider # <<>> /\ model # <<>>, provider |-> provider, model |-> model]

\* modelKey(provider, model): `${provider}/${model}`
modelKey(provider, model) == provider \o <<"/">> \o model

\* buildAllowedModelSet({ cfg, catalog, defaultProvider }): no configured
\* allowlist allows any model of the catalog; a configured one allows its
\* entries that the catalog knows.
buildAllowedModelSet(cfg, catalog, defaultProvider) ==
    IF cfg.models = {}
    THEN [allowAny |-> TRUE, allowedKeys |-> catalog]
    ELSE [allowAny |-> FALSE, allowedKeys |-> cfg.models \cap catalog]

NoError == [text |-> "", ref |-> <<>>, allowed |-> {}]

NoPayload == [status |-> "none", error |-> NoError]

\* jsonResult(payload): the tool result carrying the payload
jsonResult(payload) == [type |-> "json", details |-> payload]

NoResult == [type |-> "none", details |-> NoPayload]

-----------------------------------------------------------------------------
(* Input normalisation, lines 47-66 *)

task(params) == readStringParam(params, "task", TRUE)

label(params) ==
    IF params.label.t = "string" THEN Str(Trim(params.label.s)) ELSE Str(<<>>)

requestedAgentId(params) == readStringParam(params, "agentId", FALSE).value

modelOverride(params) == readStringParam(params, "model", FALSE).value

thinkingOverrideRaw(params) == readStringParam(params, "thinking", FALSE).value

modeLoose(params) == IF params.mode.t = "string" THEN params.mode ELSE Undefined

mode(params) ==
    IF params.mode = Str(<<"r", "u", "n">>)
       \/ params.mode = Str(<<"s", "e", "s", "s", "i", "o", "n">>)
    THEN params.mode
    ELSE Undefined

cleanupLoose(params) ==
    IF params.cleanup.t = "string" THEN params.cleanup ELSE Str(<<"k", "e", "e", "p">>)

cleanup(params) ==
    IF params.cleanup = Str(<<"k", "e", "e", "p">>)
       \/ params.cleanup = Str(<<"d", "e", "l", "e", "t", "e">>)
    THEN params.cleanup
    ELSE Str(<<"k", "e", "e", "p">>)

timeoutSecondsCandidate(params) ==
    IF IsNumber(params.runTimeoutSeconds) THEN params.runTimeoutSeconds
    ELSE IF IsNumber(params.timeoutSeconds) THEN params.timeoutSeconds
    ELSE Undefined

runTimeoutSecondsNoClamp(params) ==
    LET candidate == timeoutSecondsCandidate(params)
    IN  IF IsNumber(candidate) /\ IsFinite(candidate) THEN Floor(candidate) ELSE Undefined

runTimeoutSeconds(params) ==
    LET candidate == timeoutSecondsCandidate(params)
    IN  IF IsNumber(candidate) /\ IsFinite(candidate)
        THEN Max0(Floor(candidate))
        ELSE Undefined

threadTruthy(params) == Truthy(params.thread)

thread(params) == params.thread = Bool(TRUE)

\* The first argument of spawnSubagentDirect, lines 98-109
SpawnParams(params) ==
    [task |-> task(params).value,
     label |-> IF Truthy(label(params)) THEN label(params) ELSE Undefined,
     agentId |-> requestedAgentId(params),
     model |-> modelOverride(params),
     thinking |-> thinkingOverrideRaw(params),
     runTimeoutSeconds |-> runTimeoutSeconds(params),
     thread |-> thread(params),
     mode |-> mode(params),
     cleanup |-> cleanup(params),
     expectsCompletionMessage |-> TRUE]

\* opts?.key
OptField(o, key) == IF o.defined THEN o[key] ELSE Undefined

\* The second argument of spawnSubagentDirect, lines 110-120
SpawnContext(o) ==
    [agentSessionKey |-> OptField(o, "agentSessionKey"),
     agentChannel |-> OptField(o, "agentChannel"),
     agentAccountId |-> OptField(o, "agentAccountId"),
     agentTo |-> OptField(o, "agentTo"),
     agentThreadId |-> OptField(o, "agentThreadId"),
     agentGroupId |-> OptField(o, "agentGroupId"),
     agentGroupChannel |-> OptField(o, "agentGroupChannel"),
     agentGroupSpace |-> OptField(o, "agentGroupSpace"),
     requesterAgentIdOverride |-> OptField(o, "requesterAgentIdOverride")]

-----------------------------------------------------------------------------
(* Model allowlist enforcement, lines 68-95 *)

needsModelCheckAlways(override) == TRUE

\* if (modelOverride), line 69
needsModelCheck(override) == Truthy(override)

enforcesAlways(allowed) == TRUE

\* if (!allowed.allowAny), line 78
enforces(allowed) == ~allowed.allowAny

keyRejectedNever(key, allowed) == FALSE

\* if (!allowed.allowedKeys.has(key)), line 82
keyRejected(key, allowed) == key \notin allowed.allowedKeys

\* The outcome of lines 78-94 and the collaborators called on the way
ModelGate(override, allowed) ==
    IF ~enforces(allowed)
    THEN [pass |-> TRUE, payload |-> NoPayload, calls |-> <<>>]
    ELSE LET parsed == parseModelRef(override.s, DEFAULT_PROVIDER)
             key == modelKey(parsed.provider, parsed.model)
         IN  IF parsed.ok
             THEN IF keyRejected(key, allowed)
                  THEN [pass |-> FALSE,
                        payload |-> [status |-> "error",
                                     error |-> [text |-> "model not allowed",
                                                ref |-> key,
                                                allowed |-> allowed.allowedKeys]],
                        calls |-> <<"parseModelRef", "modelKey">>]
                  ELSE [pass |-> TRUE, payload |-> NoPayload,
                        calls |-> <<"parseModelRef", "modelKey">>]
             ELSE [pass |-> FALSE,
                   payload |-> [status |-> "error",
                                error |-> [text |-> "invalid model ref",
                                           ref |-> override.s,
                                           allowed |-> {}]],
                   calls |-> <<"parseModelRef">>]

-----------------------------------------------------------------------------
(* Inputs *)

Absent == [task |-> Undefined, label |-> Undefined, agentId |-> Undefined,
           model |-> Undefined, thinking |-> Undefined,
           runTimeoutSeconds |-> Undefined, timeoutSeconds |-> Undefined,
           thread |-> Undefined, mode |-> Undefined, cleanup |-> Undefined]

Base == [Absent EXCEPT !.task = Str(<<"t">>)]

TaskValues == {Undefined, Str(<<>>), Str(<<" ">>), Str(<<"t">>), Num(7, 1)}

ModelValues ==
    {Undefined, Str(<<>>), Str(<<" ">>), Str(<<"m">>), Str(<<"p", "/", "m">>),
     Str(<<"q", "/", "m">>), Str(<<"/", "m">>), Str(<<"p", "/">>)}

NumberValues ==
    {Undefined, Num(459, 10), Num(30, 1), Num(0, 1), Num(-1, 2), Num(-3, 1),
     Num(0, 0), Num(1, 0), Num(-1, 0), Str(<<"9">>)}

ModeValues ==
    {Undefined, Str(<<"r", "u", "n">>), Str(<<"s", "e", "s", "s", "i", "o", "n">>),
     Str(<<"l", "o", "o", "p">>), Str(<<"R", "u", "n">>), Bool(TRUE)}

CleanupValues ==
    {Undefined, Str(<<"k", "e", "e", "p">>), Str(<<"d", "e", "l", "e", "t", "e">>),
     Str(<<"p", "u", "r", "g", "e">>), Bool(TRUE)}

ThreadValues == {Undefined, Bool(TRUE), Bool(FALSE), Str(<<"t", "r", "u", "e">>), Num(1, 1)}

TextValues == {Undefined, Str(<<>>), Str(<<" ">>), Str(<<" ", "x", " ">>)}

\* The raw arguments a single invocation is tried on: each family varies one
\* group of parameters over all its values.
RawParams ==
    {[Base EXCEPT !.task = t, !.model = m] : t \in TaskValues, m \in ModelValues}
    \cup {[Base EXCEPT !.runTimeoutSeconds = a, !.timeoutSeconds = b] :
            a \in NumberValues, b \in NumberValues}
    \cup {[Base EXCEPT !.mode = a, !.cleanup = b, !.model = m] :
            a \in ModeValues, b \in CleanupValues,
            m \in {Undefined, Str(<<"m">>), Str(<<"q", "/", "m">>)}}
    \cup {[Base EXCEPT !.thread = a, !.model = m] :
            a \in ThreadValues, m \in {Undefined, Str(<<"m">>)}}
    \cup {[Base EXCEPT !.label = a, !.agentId = b, !.thinking = c] :
            a \in TextValues, b \in TextValues, c \in TextValues}

\* The raw arguments concurrent invocations are tried on
GateParams ==
    {Absent}
    \cup {[Base EXCEPT !.model = m] :
            m \in {Undefined, Str(<<"q", "/", "m">>), Str(<<"/", "m">>)}}

UndefinedOpts ==
    [defined |-> FALSE, agentSessionKey |-> Undefined, agentChannel |-> Undefined,
     agentAccountId |-> Undefined, agentTo |-> Undefined, agentThreadId |-> Undefined,
     agentGroupId |-> Undefined, agentGroupChannel |-> Undefined,
     agentGroupSpace |-> Undefined, requesterAgentIdOverride |-> Undefined]

\* The opts a tool is created with (createSessionsSpawnTool(opts))
ToolOpts ==
    {UndefinedOpts,
     [UndefinedOpts EXCEPT !.defined = TRUE,
                           !.agentSessionKey = Str(<<"a">>),
                           !.agentThreadId = Num(5, 1),
                           !.requesterAgentIdOverride = Str(<<"c">>)]}

Keys == {<<"p", "/", "m">>, <<"q", "/", "m">>}

\* Configurations: the configured model allowlist (empty: none configured)
Configs == {[models |-> {}], [models |-> Keys]}

\* Replies of loadModelCatalog
Catalogs == {Keys, {<<"p", "/", "m">>}}

\* Replies of spawnSubagentDirect
SpawnResults ==
    {[status |-> "accepted", error |-> NoError],
     [status |-> "forbidden", error |-> [text |-> "not allowed", ref |-> <<>>, allowed |-> {}]]}

-----------------------------------------------------------------------------
(* State *)

VARIABLES
    config,   \* the process-wide configuration loadConfig() reads
    pc,       \* where each invocation of execute is
    args,     \* the raw arguments of each invocation
    opts,     \* the opts of the tool each invocation runs on
    cfg,      \* the local cfg of each invocation (line 70)
    catalog,  \* the local catalog of each invocation (line 71)
    spawned,  \* the calls of spawnSubagentDirect each invocation made
    reply,    \* what spawnSubagentDirect answered each invocation
    result,   \* what each invocation returned
    thrown,   \* what each invocation threw
    calls     \* the collaborators each invocation called, in order

vars == <<config, pc, args, opts, cfg, catalog, spawned, reply, result, thrown, calls>>

NoConfig == [models |-> {}]

ToolInputError == [text |-> "task required", ref |-> <<"t", "a", "s", "k">>, allowed |-> {}]

Init ==
    /\ config \in Configs
    /\ pc = [i \in Invocations |-> "idle"]
    /\ args = [i \in Invocations |-> Absent]
    /\ opts = [i \in Invocations |-> UndefinedOpts]
    /\ cfg = [i \in Invocations |-> NoConfig]
    /\ catalog = [i \in Invocations |-> {}]
    /\ spawned = [i \in Invocations |-> <<>>]
    /\ reply = [i \in Invocations |-> NoPayload]
    /\ result = [i \in Invocations |-> NoResult]
    /\ thrown = [i \in Invocations |-> NoError]
    /\ calls = [i \in Invocations |-> <<>>]

\* loadConfig(): the current process-wide configuration
loadConfig == config

modelCheckCallsSwapped == <<"loadModelCatalog", "loadConfig">>

\* The collaborators called by lines 70-71, in order
modelCheckCalls == <<"loadConfig", "loadModelCatalog">>

cfgShared(i) == cfg[1]

\* The cfg that line 73 hands to buildAllowedModelSet
cfgOf(i) == cfg[i]

\* await spawnSubagentDirect(...), lines 97-121: the call
Dispatch(i, params, o) ==
    /\ spawned' = [spawned EXCEPT ![i] =
                      Append(@, [request |-> SpawnParams(params),
                                 context |-> SpawnContext(o)])]
    /\ pc' = [pc EXCEPT ![i] = "awaitSpawn"]

\* execute(_toolCallId, args), lines 45-71 (model given) or 45-69, 97 (none)
Execute(i, o, params) ==
    /\ pc[i] = "idle"
    /\ args' = [args EXCEPT ![i] = params]
    /\ opts' = [opts EXCEPT ![i] = o]
    /\ IF task(params).thrown
       THEN /\ pc' = [pc EXCEPT ![i] = "thrown"]
            /\ thrown' = [thrown EXCEPT ![i] = ToolInputError]
            /\ UNCHANGED <<cfg, spawned, calls>>
       ELSE IF needsModelCheck(modelOverride(params))
       THEN /\ cfg' = [cfg EXCEPT ![i] = loadConfig]
            /\ calls' = [calls EXCEPT ![i] = @ \o modelCheckCalls]
            /\ pc' = [pc EXCEPT ![i] = "awaitCatalog"]
            /\ UNCHANGED <<spawned, thrown>>
       ELSE /\ Dispatch(i, params, o)
            /\ calls' = [calls EXCEPT ![i] = Append(@, "spawnSubagentDirect")]
            /\ UNCHANGED <<cfg, thrown>>
    /\ UNCHANGED <<config, catalog, reply, result>>

\* loadModelCatalog() resolves: lines 71-97
CatalogLoaded(i, cat) ==
    /\ pc[i] = "awaitCatalog"
    /\ catalog' = [catalog EXCEPT ![i] = cat]
    /\ LET allowed == buildAllowedModelSet(cfgOf(i), cat, DEFAULT_PROVIDER)
           gate == ModelGate(modelOverride(args[i]), allowed)
       IN  IF gate.pass
           THEN /\ Dispatch(i, args[i], opts[i])
                /\ calls' = [calls EXCEPT ![i] =
                                @ \o <<"buildAllowedModelSet">> \o gate.calls
                                  \o <<"spawnSubagentDirect">>]
                /\ UNCHANGED result
           ELSE /\ result' = [result EXCEPT ![i] = jsonResult(gate.payload)]
                /\ calls' = [calls EXCEPT ![i] =
                                @ \o <<"buildAllowedModelSet">> \o gate.calls]
                /\ pc' = [pc EXCEPT ![i] = "returned"]
                /\ UNCHANGED spawned
    /\ UNCHANGED <<config, args, opts, cfg, reply, thrown>>

\* spawnSubagentDirect resolves: lines 97-123
SpawnReturned(i, r) ==
    /\ pc[i] = "awaitSpawn"
    /\ reply' = [reply EXCEPT ![i] = r]
    /\ result' = [result EXCEPT ![i] = jsonResult(r)]
    /\ pc' = [pc EXCEPT ![i] = "returned"]
    /\ UNCHANGED <<config, args, opts, cfg, catalog, spawned, thrown, calls>>

\* The configuration changes while the process runs
ConfigChanged(c) ==
    /\ c # config
    /\ config' = c
    /\ UNCHANGED <<pc, args, opts, cfg, catalog, spawned, reply, result, thrown, calls>>

\* One invocation, on every raw argument record of RawParams
Next ==
    \/ \E o \in ToolOpts, params \in RawParams : Execute(1, o, params)
    \/ \E cat \in Catalogs : CatalogLoaded(1, cat)
    \/ \E r \in SpawnResults : SpawnReturned(1, r)
    \/ \E c \in Configs : ConfigChanged(c)

Spec == Init /\ [][Next]_vars

\* Invocations interleaving at their suspend points
NextConc ==
    \/ \E i \in Invocations, o \in ToolOpts, params \in GateParams : Execute(i, o, params)
    \/ \E i \in Invocations, cat \in Catalogs : CatalogLoaded(i, cat)
    \/ \E i \in Invocations, r \in SpawnResults : SpawnReturned(i, r)
    \/ \E c \in Configs : ConfigChanged(c)

SpecConc == Init /\ [][NextConc]_vars

-----------------------------------------------------------------------------
(* Vocabulary of the properties *)

Started(i) == pc[i] # "idle"

Called(i, name) == \E k \in 1..Len(calls[i]) : calls[i][k] = name

CallCount(i, name) == Cardinality({k \in 1..Len(calls[i]) : calls[i][k] = name})

\* Position of the first call of name, 0 when it was not called
FirstCall(i, name) ==
    IF Called(i, name)
    THEN CHOOSE k \in 1..Len(calls[i]) :
            calls[i][k] = name /\ \A j \in 1..(k - 1) : calls[i][j] # name
    ELSE 0

\* A string with a character that is no space
NonBlank(v) == v.t = "string" /\ \E k \in 1..Len(v.s) : v.s[k] # " "

TaskGiven(i) == NonBlank(args[i].task)

OverrideGiven(i) == NonBlank(args[i].model)

\* The allowed-model set of invocation i, from the replies it received
AllowedSeen(i) == buildAllowedModelSet(cfg[i], catalog[i], DEFAULT_PROVIDER)

\* The allowlist check of invocation i is over
Checked(i) == Called(i, "buildAllowedModelSet")

ParsedSeen(i) == parseModelRef(args[i].model.s, DEFAULT_PROVIDER)

KeySeen(i) == modelKey(ParsedSeen(i).provider, ParsedSeen(i).model)

GatePasses(i) ==
    \/ AllowedSeen(i).allowAny
    \/ ParsedSeen(i).ok /\ KeySeen(i) \in AllowedSeen(i).allowedKeys

\* Validation succeeded: the task is there and the model gate passed or was skipped
Validated(i) ==
    /\ Started(i)
    /\ TaskGiven(i)
    /\ \/ ~OverrideGiven(i)
       \/ Checked(i) /\ GatePasses(i)

Spawned(i) == spawned[i] # <<>>

Forwarded(i) == spawned[i][1].request

IsErrorResult(i) ==
    /\ pc[i] = "returned"
    /\ result[i].type = "json"
    /\ result[i].details.status = "error"
    /\ result[i].details.error.text # ""

-----------------------------------------------------------------------------
(* Properties *)

\* C1: with a non-empty model override and a restrictive allowed-model set,
\* spawnSubagentDirect is invoked only if the override parses and its key is
\* in allowedKeys; otherwise the invocation returns {status: "error"} and the
\* spawning service is never invoked.
C1_RestrictiveGate ==
    \A i \in Invocations :
        (OverrideGiven(i) /\ Checked(i) /\ ~AllowedSeen(i).allowAny) =>
            /\ Spawned(i) =>
                  ParsedSeen(i).ok /\ KeySeen(i) \in AllowedSeen(i).allowedKeys
            /\ (~ParsedSeen(i).ok \/ KeySeen(i) \notin AllowedSeen(i).allowedKeys) =>
                  /\ IsErrorResult(i)
                  /\ ~Spawned(i)
                  /\ ~Called(i, "spawnSubagentDirect")

C1_Witness ==
    \E i \in Invocations :
        /\ OverrideGiven(i) /\ Checked(i) /\ ~AllowedSeen(i).allowAny
        /\ ParsedSeen(i).ok /\ KeySeen(i) \notin AllowedSeen(i).allowedKeys
        /\ IsErrorResult(i)
        /\ result[i].details.error.text = "model not allowed"

\* C2: every validation failure (task missing, empty or whitespace-only;
\* invalid model ref; model not allowed) ends the invocation with a returned
\* {status: "error", error} result, never with an exception.
C2_FailuresReported ==
    \A i \in Invocations :
        /\ pc[i] # "thrown"
        /\ (Started(i) /\ ~TaskGiven(i)) => IsErrorResult(i)

\* C3: the forwarded runTimeoutSeconds comes from runTimeoutSeconds when that
\* is a number, else from timeoutSeconds; a finite candidate is forwarded as
\* the largest integer not above it, and as 0 when that is negative; a
\* non-finite candidate or none leaves the field absent.
C3_RunTimeout ==
    \A i \in Invocations :
        Spawned(i) =>
            LET run == args[i].runTimeoutSeconds
                old == args[i].timeoutSeconds
                has == run.t = "number" \/ old.t = "number"
                c == IF run.t = "number" THEN run ELSE old
                out == Forwarded(i).runTimeoutSeconds
            IN  /\ (~has \/ c.den = 0) => out = Undefined
                /\ (has /\ c.den # 0) =>
                      /\ out.t = "number" /\ out.den = 1 /\ out.num >= 0
                      /\ c.num < 0 => out.num = 0
                      /\ c.num >= 0 =>
                            /\ out.num * c.den <= c.num
                            /\ c.num < (out.num + 1) * c.den

C3_Witness ==
    \E i \in Invocations :
        /\ Spawned(i)
        /\ args[i].runTimeoutSeconds = Num(-1, 2)
        /\ args[i].timeoutSeconds = Num(459, 10)
        /\ Forwarded(i).runTimeoutSeconds = Num(0, 1)

\* C4: with the model parameter absent or empty no configuration or catalog
\* is loaded, no allowed-model set is built and nothing is parsed, and a
\* request with a task is forwarded with model absent.
C4_NoModelNoLoad ==
    \A i \in Invocations :
        (Started(i) /\ args[i].model \in {Undefined, Str(<<>>)}) =>
            /\ ~Called(i, "loadConfig")
            /\ ~Called(i, "loadModelCatalog")
            /\ ~Called(i, "buildAllowedModelSet")
            /\ ~Called(i, "parseModelRef")
            /\ TaskGiven(i) => Spawned(i) /\ Forwarded(i).model = Undefined

C4_Witness ==
    \E i \in Invocations :
        /\ pc[i] = "returned"
        /\ args[i].model = Str(<<>>)
        /\ Spawned(i)
        /\ Forwarded(i).model = Undefined
        /\ calls[i] = <<"spawnSubagentDirect">>

\* C5: when the allowed-model set allows any model, a non-empty override is
\* not parsed or looked up, produces no error result, and the spawning
\* service is invoked with model equal to the override.
C5_AllowAnyForwards ==
    \A i \in Invocations :
        (TaskGiven(i) /\ OverrideGiven(i) /\ Checked(i) /\ AllowedSeen(i).allowAny) =>
            /\ ~Called(i, "parseModelRef")
            /\ ~Called(i, "modelKey")
            /\ Spawned(i)
            /\ Forwarded(i).model = args[i].model
            /\ pc[i] = "returned" => result[i] = jsonResult(reply[i])

C5_Witness ==
    \E i \in Invocations :
        /\ OverrideGiven(i) /\ Checked(i) /\ AllowedSeen(i).allowAny
        /\ ~ParsedSeen(i).ok
        /\ pc[i] = "returned"
        /\ Spawned(i)
        /\ Forwarded(i).model = Str(<<"/", "m">>)

\* C6: after validation succeeds the spawning service is invoked exactly
\* once, with expectsCompletionMessage true and thread true only for the raw
\* boolean true, and its reply is the payload of the result, unchanged.
C6_SpawnOnce ==
    \A i \in Invocations :
        /\ Len(spawned[i]) <= 1
        /\ CallCount(i, "spawnSubagentDirect") = Len(spawned[i])
        /\ (Validated(i) /\ pc[i] \in {"awaitSpawn", "returned"}) =>
              /\ Len(spawned[i]) = 1
              /\ Forwarded(i).expectsCompletionMessage = TRUE
              /\ Forwarded(i).thread = (args[i].thread = Bool(TRUE))
              /\ pc[i] = "returned" =>
                    result[i].type = "json" /\ result[i].details = reply[i]

C6_Witness ==
    \E i \in Invocations :
        /\ Validated(i)
        /\ pc[i] = "returned"
        /\ args[i].thread = Str(<<"t", "r", "u", "e">>)
        /\ Forwarded(i).thread = FALSE
        /\ reply[i].status = "forbidden"
        /\ result[i].details = reply[i]

\* C7: the forwarded mode is the raw mode when that is exactly "run" or
\* "session" and absent for every other raw value, and another value does
\* not reject the request.
C7_Mode ==
    \A i \in Invocations :
        LET raw == args[i].mode
            exact == raw \in {Str(<<"r", "u", "n">>), Str(<<"s", "e", "s", "s", "i", "o", "n">>)}
        IN  /\ Spawned(i) =>
                  Forwarded(i).mode = (IF exact THEN raw ELSE Undefined)
            /\ (~exact /\ Validated(i)) => Spawned(i)

C7_Witness ==
    \E i \in Invocations :
        /\ args[i].mode = Str(<<"l", "o", "o", "p">>)
        /\ OverrideGiven(i)
        /\ pc[i] = "returned"
        /\ Spawned(i)
        /\ Forwarded(i).mode = Undefined

\* C8: the forwarded cleanup is "delete" when the raw value is exactly
\* "delete" and "keep" for every other raw value, and an invalid cleanup
\* never gives an error result.
C8_Cleanup ==
    \A i \in Invocations :
        LET raw == args[i].cleanup
            delete == Str(<<"d", "e", "l", "e", "t", "e">>)
        IN  /\ Spawned(i) =>
                  Forwarded(i).cleanup =
                      (IF raw = delete THEN delete ELSE Str(<<"k", "e", "e", "p">>))
            /\ (raw \notin {delete, Str(<<"k", "e", "e", "p">>)} /\ Validated(i)) =>
                  /\ Spawned(i)
                  /\ pc[i] = "returned" => result[i].details = reply[i]

C8_Witness ==
    \E i \in Invocations :
        /\ args[i].cleanup = Str(<<"p", "u", "r", "g", "e">>)
        /\ pc[i] = "returned"
        /\ Spawned(i)
        /\ Forwarded(i).cleanup = Str(<<"k", "e", "e", "p">>)
        /\ reply[i].status = "accepted"

\* The collaborators of which an invocation calls each at most once
Collaborators ==
    {"loadConfig", "loadModelCatalog", "buildAllowedModelSet", "parseModelRef",
     "modelKey", "spawnSubagentDirect"}

\* b is called only after a was
Precedes(i, a, b) ==
    Called(i, b) => Called(i, a) /\ FirstCall(i, a) < FirstCall(i, b)

CallOrder(i) ==
    /\ \A name \in Collaborators : CallCount(i, name) <= 1
    /\ \A k \in 1..Len(calls[i]) : calls[i][k] \in Collaborators
    /\ ~TaskGiven(i) => calls[i] = <<>>
    /\ Precedes(i, "loadConfig", "loadModelCatalog")
    /\ Precedes(i, "loadModelCatalog", "buildAllowedModelSet")
    /\ Precedes(i, "buildAllowedModelSet", "parseModelRef")
    /\ Precedes(i, "parseModelRef", "modelKey")
    /\ (Started(i) /\ TaskGiven(i) /\ OverrideGiven(i)) => calls[i][1] = "loadConfig"
    /\ Called(i, "spawnSubagentDirect") =>
          /\ calls[i][Len(calls[i])] = "spawnSubagentDirect"
          /\ OverrideGiven(i) => Checked(i) /\ GatePasses(i)

\* The configuration an invocation checks against is the one current when it
\* loads it, and the check is decided by that configuration and the catalog
\* the invocation itself received.
FreshLoad(i) ==
    /\ (pc[i] = "idle" /\ pc'[i] = "awaitCatalog") => cfg'[i] = config
    /\ (pc[i] = "awaitCatalog" /\ pc'[i] # "awaitCatalog") =>
          /\ cfg'[i] = cfg[i]
          /\ Checked(i)'
          /\ Spawned(i)' <=> GatePasses(i)'

\* C9: in one invocation the external calls happen in a fixed order, each at
\* most once: task validation first, then loadConfig, loadModelCatalog,
\* buildAllowedModelSet, parseModelRef, and the spawn dispatch last, after
\* the allowlist check; the allowed-model set is built from the
\* configuration and catalog loaded by that same invocation.
C9_OrderAndFreshness ==
    /\ [](\A i \in Invocations : CallOrder(i))
    /\ [][\A i \in Invocations : FreshLoad(i)]_vars

C9_Witness ==
    \E i, j \in Invocations :
        /\ pc[i] = "returned" /\ pc[j] = "returned"
        /\ args[i].model = Str(<<"q", "/", "m">>) /\ args[j].model = args[i].model
        /\ catalog[i] = catalog[j]
        /\ cfg[i] # cfg[j]
        /\ calls[i] = <<"loadConfig", "loadModelCatalog", "buildAllowedModelSet",
                        "parseModelRef", "modelKey">>
        /\ calls[j] = <<"loadConfig", "loadModelCatalog", "buildAllowedModelSet",
                        "spawnSubagentDirect">>

\* The state of one invocation
Slot(i) ==
    <<pc[i], args[i], opts[i], cfg[i], catalog[i], spawned[i], reply[i], result[i],
      thrown[i], calls[i]>>

\* What invocation i returns when the model gate rejects its override
Rejection(i) ==
    IF ParsedSeen(i).ok
    THEN [status |-> "error",
          error |-> [text |-> "model not allowed", ref |-> KeySeen(i),
                     allowed |-> AllowedSeen(i).allowedKeys]]
    ELSE [status |-> "error",
          error |-> [text |-> "invalid model ref", ref |-> args[i].model.s,
                     allowed |-> {}]]

OwnOutcome(i) ==
    /\ pc[i] = "thrown" <=> (Started(i) /\ ~TaskGiven(i))
    /\ Spawned(i) <=> Validated(i)
    /\ Spawned(i) =>
          spawned[i] = <<[request |-> SpawnParams(args[i]),
                          context |-> SpawnContext(opts[i])]>>
    /\ pc[i] = "returned" =>
          result[i] = (IF Spawned(i) THEN jsonResult(reply[i])
                       ELSE jsonResult(Rejection(i)))

\* A step writes the state of at most one invocation, and never the
\* process-wide configuration
OwnWrites ==
    \A i \in Invocations :
        Slot(i)' # Slot(i) =>
            /\ config' = config
            /\ \A j \in Invocations \ {i} : Slot(j)' = Slot(j)

\* C10: under every interleaving of invocations at their suspend points, what
\* an invocation forwards and returns is determined by its own raw
\* parameters, its own requester context and the replies to its own external
\* calls, and no step of one invocation changes the state of another.
C10_Independent ==
    /\ [](\A i \in Invocations : OwnOutcome(i))
    /\ [][OwnWrites]_vars

C10_Witness ==
    \E i, j \in Invocations :
        /\ i # j
        /\ pc[i] = "awaitSpawn"
        /\ IsErrorResult(j)
        /\ args[i] = args[j]
        /\ cfg[i] = cfg[j]
        /\ catalog[i] # catalog[j]

====
